---- MODULE Spec2Model ----
(***************************************************************************)
(* hexvi: the hex view (src/src/widget.rs), the editor operations on top   *)
(* of it (src/src/editor.rs) and the windowed read (src/src/util.rs).      *)
(*                                                                         *)
(* The hex view keeps no window offset of its own: the offset the view is  *)
(* read and drawn from is the seek position of the open file (get_seek).   *)
(* The model therefore carries the file's seek position as fpos, and       *)
(* window_offset is a name for it.                                         *)
(*                                                                         *)
(* u64 values are carried by their two's-complement i64 reading: a         *)
(* negative integer n stands for the u64 value 2^64 + n.  `as u64` and     *)
(* `as i64` are then the bit-for-bit casts they are in Rust, and the       *)
(* unsigned operations are u64_rem16, u64_sub and u64_gt below.            *)
(***************************************************************************)
EXTENDS Integers, Sequences, FiniteSets, TLC

\* ---------------------------------------------------------------- bounds
MaxRows   == 2      \* hex_win.get_max_y() ranges over 1..MaxRows
MaxCount  == 2      \* count argument of scroll and move_cursor: 0..MaxCount
MaxSeek   == 21     \* seek targets: -MaxBack..MaxSeek
MaxBack   == 17     \* ... from the end of the file
MaxMany   == 2      \* completed entries in one replace_many call

FileLens == {0, 16, 20}             \* lengths of the file when it is opened
HexChars == {"a", "F"}              \* hex digits the operator types
KeySet   == HexChars \cup {"z", "ESC", "KEY", "NONE"}

\* ------------------------------------------------------ program constants
ROW_BYTES == 16
BUF_LEN   == 512
OFFSET_PANE_WIDTH == 8
HEX_PANE_WIDTH    == 32 + 7
CANON_PANE_WIDTH  == 16
SEP_WIDTH         == 3
ESC       == "ESC"

Directions == {"Up", "Down", "Left", "Right"}
Panes      == {"Hex", "Canon"}

VARIABLES
    file,         \* contents of the open file, a sequence of bytes
    fpos,         \* seek position of the open file (HexView::get_seek)
    ro,           \* the file was opened read-only (Config.ro)
    max_y,        \* hex_win.get_max_y(): number of visible rows
    buffer,       \* HexView.buffer
    position_y,   \* HexView.position_y
    position_x,   \* HexView.position_x
    active_pane,  \* HexView.active_pane
    status,       \* Editor.status
    crashed,      \* the process panicked
    len0,         \* length of the file when it was opened
    writes,       \* bytes written to the file so far
    wfail,        \* a write to the file has failed
    hex_bold,     \* cells (y, x) of hex_win drawn with A_BOLD
    canon_bold,   \* cells (y, x) of canon_win drawn with A_BOLD
    last          \* the operation that produced this state, and its result

vars == <<file, fpos, ro, max_y, buffer, position_y, position_x, active_pane,
          status, crashed, len0, writes, wfail, hex_bold, canon_bold, last>>

Min(a, b) == IF a < b THEN a ELSE b

\* Contents of the file when it is opened: any bytes will do.
InitByte(i) == (i * 7 + 65) % 256
InitFile(n) == [i \in 1..n |-> InitByte(i - 1)]

\* ------------------------------------------------------------ u64 helpers
u64_rem16(a) == a % 16
u64_sub(a, b) == a - b
u64_gt(a, b) ==
    IF a < 0 THEN (b >= 0 \/ a > b) ELSE (b >= 0 /\ a > b)

\* count * 16 in u32 (release build: wrapping)
u32_mul16(count) == (count % 268435456) * 16

\* ---------------------------------------------------------- the hex view
\* The mutable part of the editor, threaded through the operations.
State == [file |-> file, fpos |-> fpos, buffer |-> buffer,
          position_y |-> position_y, position_x |-> position_x,
          active_pane |-> active_pane, status |-> status,
          crashed |-> crashed, writes |-> writes, wfail |-> wfail,
          hex_bold |-> hex_bold, canon_bold |-> canon_bold,
          rdfault |-> FALSE]

Ret(s, e) == [st |-> s, err |-> e]

get_seek(s) == s.fpos

\* the read loop that keeps the whole of the last chunk read
RECURSIVE read_loop_whole_chunk(_, _, _, _, _)
read_loop_whole_chunk(f, p, size, all_read, vector) ==
    LET read == IF p >= Len(f) THEN 0 ELSE Min(BUF_LEN, Len(f) - p)
    IN  IF read = 0
        THEN vector
        ELSE IF all_read + read <= size
             THEN read_loop_whole_chunk(f, p + read, size, all_read + read,
                                        vector \o SubSeq(f, p + 1, p + read))
             ELSE vector \o SubSeq(f, p + 1, p + read)

\* util::freadn_to_vec: the read loop, from position p of file f.
RECURSIVE read_loop(_, _, _, _, _)
read_loop(f, p, size, all_read, vector) ==
    LET read == IF p >= Len(f) THEN 0 ELSE Min(BUF_LEN, Len(f) - p)
    IN  IF read = 0
        THEN vector
        ELSE IF all_read + read <= size
             THEN read_loop(f, p + read, size, all_read + read,
                            vector \o SubSeq(f, p + 1, p + read))
             ELSE vector \o SubSeq(f, p + 1, p + (size - all_read))

\* util::freadn_to_vec: the seek position is put back after the loop; a
\* failing read leaves the function before the loop has moved it.
freadn_to_vec(s, size) ==
    IF s.rdfault
    THEN Ret([s EXCEPT !.rdfault = FALSE], "IoError")
    ELSE [st |-> s, err |-> "ok",
          vec |-> read_loop(s.file, s.fpos, size, 0, <<>>)]

read_buf(s) ==
    LET bytes_to_read == max_y * ROW_BYTES
        r == freadn_to_vec(s, bytes_to_read)
    IN  IF r.err # "ok"
        THEN Ret(r.st, r.err)
        ELSE Ret([r.st EXCEPT !.buffer = r.vec], "ok")

\* window.mvchgat(y, x, n, attr, 0) on the bold cells of a window: the n
\* cells from (y, x) on are given the attribute
mvchgat(cells, y, x, n, bold) ==
    LET span == {<<y, c>> : c \in x..(x + n - 1)}
    IN  IF bold THEN cells \cup span ELSE cells \ span

\* HexView::draw, the attributes: every cell of hex_win and canon_win is
\* printed anew, with the attributes of the window, which are normal.  The
\* characters printed are draw_hex and draw_canon below.
draw(s) == [s EXCEPT !.hex_bold = {}, !.canon_bold = {}]

\* HexView::jump_to, `self.read_buf()?; self.draw()?`: the view is drawn
\* when the read has succeeded.
draw_after(r) == IF r.err # "ok" THEN r ELSE Ret(draw(r.st), "ok")

\* jump_to that moves the view and leaves the buffer as it was
jump_to_norefill(s, offset) ==
    LET cur_seek == get_seek(s)
        end == Len(s.file)
    IN  IF u64_gt(offset, end)
        THEN Ret([s EXCEPT !.fpos = cur_seek], "OutOfRange")
        ELSE Ret(draw([s EXCEPT !.fpos = offset]), "ok")

jump_to(s, offset) ==
    LET cur_seek == get_seek(s)
        end == Len(s.file)
    IN  IF u64_gt(offset, end)
        THEN Ret([s EXCEPT !.fpos = cur_seek], "OutOfRange")
        ELSE draw_after(read_buf([s EXCEPT !.fpos = offset]))

\* seek that leaves the cursor column where it was
seek_keeps_column(s, offset) ==
    LET end == Len(s.file)
        real_offset == IF offset < 0 THEN end + offset ELSE offset
        remainder == u64_rem16(real_offset)
        aligned == u64_sub(real_offset, remainder)
        j == jump_to(s, aligned)
    IN  IF j.err # "ok"
        THEN j
        ELSE Ret([j.st EXCEPT !.position_y = 0], "ok")

\* seek that counts a negative offset from one past the end
seek_from_end_off_by_one(s, offset) ==
    LET end == Len(s.file)
        real_offset == IF offset < 0 THEN end + offset + 1 ELSE offset
        remainder == u64_rem16(real_offset)
        aligned == u64_sub(real_offset, remainder)
        j == jump_to(s, aligned)
    IN  IF j.err # "ok"
        THEN j
        ELSE Ret([j.st EXCEPT !.position_y = 0, !.position_x = remainder], "ok")

\* seek that takes a negative offset reaching before the start of the file
\* as the start of the file
seek_clamped_to_start(s, offset) ==
    LET end == Len(s.file)
        real_offset == IF offset < 0
                       THEN (IF end + offset < 0 THEN 0 ELSE end + offset)
                       ELSE offset
        remainder == u64_rem16(real_offset)
        aligned == u64_sub(real_offset, remainder)
        j == jump_to(s, aligned)
    IN  IF j.err # "ok"
        THEN j
        ELSE Ret([j.st EXCEPT !.position_y = 0, !.position_x = remainder], "ok")

seek(s, offset) ==
    LET end == Len(s.file)
        real_offset == IF offset < 0 THEN end + offset ELSE offset
        remainder == u64_rem16(real_offset)
        aligned == u64_sub(real_offset, remainder)
        j == jump_to(s, aligned)
    IN  IF j.err # "ok"
        THEN j
        ELSE Ret([j.st EXCEPT !.position_y = 0, !.position_x = remainder], "ok")

\* scroll that clamps at the start of the file instead of failing
scroll_clamped(s, direction, count) ==
    LET cur_seek == get_seek(s)
        real_count == u32_mul16(count)
    IN  CASE direction = "Down" -> jump_to(s, cur_seek + real_count)
          [] direction = "Up" ->
                IF cur_seek - real_count < 0
                THEN jump_to(s, 0)
                ELSE jump_to(s, u64_sub(cur_seek, real_count))
          [] direction = "Left" -> Ret(s, "CannotScroll")
          [] direction = "Right" -> Ret(s, "CannotScroll")

scroll(s, direction, count) ==
    LET cur_seek == get_seek(s)
        real_count == u32_mul16(count)
    IN  CASE direction = "Down" -> jump_to(s, cur_seek + real_count)
          [] direction = "Up" ->
                IF cur_seek - real_count < 0
                THEN Ret(s, "OutOfRange")
                ELSE jump_to(s, u64_sub(cur_seek, real_count))
          [] direction = "Left" -> Ret(s, "CannotScroll")
          [] direction = "Right" -> Ret(s, "CannotScroll")

\* move_cursor_once whose Left step at the origin scrolls and keeps column 0
move_cursor_once_left_keeps_col(s, direction) ==
    CASE direction = "Up" ->
            IF s.position_y = 0
            THEN scroll(s, "Up", 1)
            ELSE Ret([s EXCEPT !.position_y = @ - 1], "ok")
      [] direction = "Down" ->
            IF s.position_y + 1 = max_y
            THEN scroll(s, "Down", 1)
            ELSE Ret([s EXCEPT !.position_y = @ + 1], "ok")
      [] direction = "Left" ->
            IF s.position_x = 0
            THEN IF s.position_y = 0
                 THEN scroll(s, "Up", 1)
                 ELSE Ret([s EXCEPT !.position_x = 16 - 1,
                                    !.position_y = @ - 1], "ok")
            ELSE Ret([s EXCEPT !.position_x = @ - 1], "ok")
      [] direction = "Right" ->
            IF s.position_x = 16 - 1
            THEN IF s.position_y + 1 = max_y
                 THEN LET r == scroll(s, "Down", 1)
                      IN  IF r.err # "ok" THEN r
                          ELSE Ret([r.st EXCEPT !.position_x = 0], "ok")
                 ELSE Ret([s EXCEPT !.position_x = 0,
                                    !.position_y = @ + 1], "ok")
            ELSE Ret([s EXCEPT !.position_x = @ + 1], "ok")

\* move_cursor_once whose Down step never looks at the last row
move_cursor_once_noedge(s, direction) ==
    CASE direction = "Up" ->
            IF s.position_y = 0
            THEN scroll(s, "Up", 1)
            ELSE Ret([s EXCEPT !.position_y = @ - 1], "ok")
      [] direction = "Down" ->
            Ret([s EXCEPT !.position_y = @ + 1], "ok")
      [] direction = "Left" ->
            IF s.position_x = 0
            THEN IF s.position_y = 0
                 THEN LET r == scroll(s, "Up", 1)
                      IN  IF r.err # "ok" THEN r
                          ELSE Ret([r.st EXCEPT !.position_x = 16 - 1], "ok")
                 ELSE Ret([s EXCEPT !.position_x = 16 - 1,
                                    !.position_y = @ - 1], "ok")
            ELSE Ret([s EXCEPT !.position_x = @ - 1], "ok")
      [] direction = "Right" ->
            IF s.position_x = 16 - 1
            THEN IF s.position_y + 1 = max_y
                 THEN LET r == scroll(s, "Down", 1)
                      IN  IF r.err # "ok" THEN r
                          ELSE Ret([r.st EXCEPT !.position_x = 0], "ok")
                 ELSE Ret([s EXCEPT !.position_x = 0,
                                    !.position_y = @ + 1], "ok")
            ELSE Ret([s EXCEPT !.position_x = @ + 1], "ok")

\* move_cursor_once whose Right step at the end of a row goes back to the
\* start of the same row
move_cursor_once_right_same_row(s, direction) ==
    CASE direction = "Up" ->
            IF s.position_y = 0
            THEN scroll(s, "Up", 1)
            ELSE Ret([s EXCEPT !.position_y = @ - 1], "ok")
      [] direction = "Down" ->
            IF s.position_y + 1 = max_y
            THEN scroll(s, "Down", 1)
            ELSE Ret([s EXCEPT !.position_y = @ + 1], "ok")
      [] direction = "Left" ->
            IF s.position_x = 0
            THEN IF s.position_y = 0
                 THEN LET r == scroll(s, "Up", 1)
                      IN  IF r.err # "ok" THEN r
                          ELSE Ret([r.st EXCEPT !.position_x = 16 - 1], "ok")
                 ELSE Ret([s EXCEPT !.position_x = 16 - 1,
                                    !.position_y = @ - 1], "ok")
            ELSE Ret([s EXCEPT !.position_x = @ - 1], "ok")
      [] direction = "Right" ->
            IF s.position_x = 16 - 1
            THEN IF s.position_y + 1 = max_y
                 THEN LET r == scroll(s, "Down", 1)
                      IN  IF r.err # "ok" THEN r
                          ELSE Ret([r.st EXCEPT !.position_x = 0], "ok")
                 ELSE Ret([s EXCEPT !.position_x = 0], "ok")
            ELSE Ret([s EXCEPT !.position_x = @ + 1], "ok")

move_cursor_once(s, direction) ==
    CASE direction = "Up" ->
            IF s.position_y = 0
            THEN scroll(s, "Up", 1)
            ELSE Ret([s EXCEPT !.position_y = @ - 1], "ok")
      [] direction = "Down" ->
            IF s.position_y + 1 = max_y
            THEN scroll(s, "Down", 1)
            ELSE Ret([s EXCEPT !.position_y = @ + 1], "ok")
      [] direction = "Left" ->
            IF s.position_x = 0
            THEN IF s.position_y = 0
                 THEN LET r == scroll(s, "Up", 1)
                      IN  IF r.err # "ok" THEN r
                          ELSE Ret([r.st EXCEPT !.position_x = 16 - 1], "ok")
                 ELSE Ret([s EXCEPT !.position_x = 16 - 1,
                                    !.position_y = @ - 1], "ok")
            ELSE Ret([s EXCEPT !.position_x = @ - 1], "ok")
      [] direction = "Right" ->
            IF s.position_x = 16 - 1
            THEN IF s.position_y + 1 = max_y
                 THEN LET r == scroll(s, "Down", 1)
                      IN  IF r.err # "ok" THEN r
                          ELSE Ret([r.st EXCEPT !.position_x = 0], "ok")
                 ELSE Ret([s EXCEPT !.position_x = 0,
                                    !.position_y = @ + 1], "ok")
            ELSE Ret([s EXCEPT !.position_x = @ + 1], "ok")

\* the loop of move_cursor that takes back the steps made when a later
\* step fails
RECURSIVE move_cursor_loop_atomic(_, _, _)
move_cursor_loop_atomic(s, direction, count) ==
    IF count <= 0
    THEN Ret(s, "ok")
    ELSE LET r == move_cursor_once(s, direction)
         IN  IF r.err # "ok" THEN r
             ELSE LET rest == move_cursor_loop_atomic(r.st, direction,
                                                      count - 1)
                  IN  IF rest.err # "ok" THEN Ret(s, rest.err) ELSE rest

\* HexView::move_cursor: the loop; the first failing step ends it.
RECURSIVE move_cursor_loop(_, _, _)
move_cursor_loop(s, direction, count) ==
    IF count <= 0
    THEN Ret(s, "ok")
    ELSE LET r == move_cursor_once(s, direction)
         IN  IF r.err # "ok" THEN r
             ELSE move_cursor_loop(r.st, direction, count - 1)

hex_pos_to_cur(y, x) ==
    LET ret_y == y
        ret_x == (x * 2) + (x \div 2)
    IN  <<ret_y, ret_x>>

\* HexView::move_cursor, before the loop: the highlight is taken off the
\* cell of the cursor in both grids.
highlight_off(s) ==
    [s EXCEPT
        !.hex_bold = mvchgat(@, hex_pos_to_cur(s.position_y, s.position_x)[1],
                             hex_pos_to_cur(s.position_y, s.position_x)[2],
                             2, FALSE),
        !.canon_bold = mvchgat(@, s.position_y, s.position_x, 1, FALSE)]

\* HexView::move_cursor, after the loop: a failed step has left the
\* function; otherwise the cell of the cursor is highlighted in both grids.
highlight_on(r) ==
    IF r.err # "ok" THEN r
    ELSE Ret([r.st EXCEPT
                 !.hex_bold =
                     mvchgat(@, hex_pos_to_cur(r.st.position_y,
                                               r.st.position_x)[1],
                             hex_pos_to_cur(r.st.position_y,
                                            r.st.position_x)[2], 2, TRUE),
                 !.canon_bold =
                     mvchgat(@, r.st.position_y, r.st.position_x, 1, TRUE)],
             "ok")

move_cursor(s, direction, count) ==
    highlight_on(move_cursor_loop(highlight_off(s), direction, count))

\* switch_pane that goes to the canonical pane and stays there
switch_pane_one_way(s) ==
    draw([s EXCEPT !.active_pane = "Canon"])

switch_pane(s) ==
    draw([s EXCEPT !.active_pane = IF @ = "Hex" THEN "Canon" ELSE "Hex"])

\* HexView::new: the columns at which the hex and the canonical pane begin
hex_win_beg_x == SEP_WIDTH + OFFSET_PANE_WIDTH
canon_win_beg_x == (SEP_WIDTH * 2) + OFFSET_PANE_WIDTH + HEX_PANE_WIDTH

\* the screen cell of the cursor; the panes begin in screen row 0
get_cur_yx(s) ==
    IF s.active_pane = "Hex"
    THEN LET yx == hex_pos_to_cur(s.position_y, s.position_x)
         IN  <<0 + yx[1], hex_win_beg_x + yx[2]>>
    ELSE <<s.position_y + 0, s.position_x + canon_win_beg_x>>

\* File::write_all of one byte at the seek position: a write past the end
\* of the file extends it, the gap reading as zeros.
PutByte(f, offset, byte) ==
    [i \in 1..(IF offset + 1 > Len(f) THEN offset + 1 ELSE Len(f)) |->
        IF i = offset + 1 THEN byte
        ELSE IF i <= Len(f) THEN f[i] ELSE 0]

\* write_byte_at_offset that does not seek back
write_byte_at_offset_norestore(s, byte, offset) ==
    LET s1 == [s EXCEPT !.fpos = offset]
    IN  IF ro
        THEN Ret([s1 EXCEPT !.wfail = TRUE], "IoError")
        ELSE Ret([s1 EXCEPT !.file = PutByte(s.file, offset, byte),
                            !.writes = @ + 1], "ok")

write_byte_at_offset(s, byte, offset) ==
    LET seek_ == get_seek(s)
        s1 == [s EXCEPT !.fpos = offset]
    IN  IF ro
        THEN Ret([s1 EXCEPT !.wfail = TRUE], "IoError")
        ELSE Ret([s1 EXCEPT !.file = PutByte(s.file, offset, byte),
                            !.writes = @ + 1,
                            !.fpos = seek_], "ok")

write_byte_at_position(s, byte, pos_y, pos_x) ==
    LET offset == get_seek(s)
        byte_offset == offset + (pos_y * 16) + pos_x
    IN  write_byte_at_offset(s, byte, byte_offset)

write_byte_at_cursor(s, byte) ==
    write_byte_at_position(s, byte, s.position_y, s.position_x)

\* ------------------------------------------------------------- the screen
\* format!("{:02x}", byte)
HexDigits == <<"0", "1", "2", "3", "4", "5", "6", "7",
               "8", "9", "a", "b", "c", "d", "e", "f">>
format_02x(byte) == <<HexDigits[(byte \div 16) + 1], HexDigits[(byte % 16) + 1]>>

\* util::check_printable
check_printable(byte) == byte >= 32 /\ byte < 127

\* HexView::draw, the hex bytes: what is printed for the byte at index idx
\* of the buffer, and for one pair of bytes of a row.
draw_hex_byte(buf, idx) ==
    IF idx >= Len(buf) THEN <<" ", " ">> ELSE format_02x(buf[idx + 1])

\* draw_hex_pair that prints a space in front of every byte
draw_hex_pair_spaced(buf, row, pair) ==
    (IF (row * 16 + pair * 2) % 16 # 0 THEN <<" ">> ELSE <<>>)
        \o draw_hex_byte(buf, row * 16 + pair * 2)
        \o <<" ">>
        \o draw_hex_byte(buf, row * 16 + pair * 2 + 1)

draw_hex_pair(buf, row, pair) ==
    (IF (row * 16 + pair * 2) % 16 # 0 THEN <<" ">> ELSE <<>>)
        \o draw_hex_byte(buf, row * 16 + pair * 2)
        \o draw_hex_byte(buf, row * 16 + pair * 2 + 1)

\* the characters printed to hex_win, pairs pair..7 of row row and all
\* pairs of the rows after it, in the order they are printed
RECURSIVE draw_hex(_, _, _, _)
draw_hex(buf, nlines, row, pair) ==
    IF row >= nlines THEN <<>>
    ELSE IF pair >= 8 THEN draw_hex(buf, nlines, row + 1, 0)
    ELSE draw_hex_pair(buf, row, pair) \o draw_hex(buf, nlines, row, pair + 1)

\* HexView::draw, the canonical view: the character codes added to
\* canon_win, '.' being 46 and ' ' 32
RECURSIVE draw_canon(_, _, _, _)
draw_canon(buf, nlines, row, byte) ==
    IF row >= nlines THEN <<>>
    ELSE IF byte >= 16 THEN draw_canon(buf, nlines, row + 1, 0)
    ELSE LET cur_byte == IF row * 16 + byte >= Len(buf)
                         THEN 32 ELSE buf[row * 16 + byte + 1]
             character == IF check_printable(cur_byte) THEN cur_byte ELSE 46
         IN  <<character>> \o draw_canon(buf, nlines, row, byte + 1)

\* The cell (y, x) of a window of the given width after the characters of
\* printed were printed to it from its origin: a full line wraps to the next.
WinCell(printed, width, y, x) == printed[y * width + x + 1]

\* ------------------------------------------------------------ the editor
IsCharacter(k) == k \notin {"KEY", "NONE"}

is_ascii_hexdigit(c) == c \in {"0", "1", "2", "3", "4", "5", "6", "7", "8", "9",
                               "a", "b", "c", "d", "e", "f",
                               "A", "B", "C", "D", "E", "F"}

HexVal(c) ==
    CASE c = "0" -> 0 [] c = "1" -> 1 [] c = "2" -> 2 [] c = "3" -> 3
      [] c = "4" -> 4 [] c = "5" -> 5 [] c = "6" -> 6 [] c = "7" -> 7
      [] c = "8" -> 8 [] c = "9" -> 9
      [] c \in {"a", "A"} -> 10 [] c \in {"b", "B"} -> 11
      [] c \in {"c", "C"} -> 12 [] c \in {"d", "D"} -> 13
      [] c \in {"e", "E"} -> 14 [] c \in {"f", "F"} -> 15

\* hex::FromHex for Vec<u8>, on a string of hex digits
from_hex(input) ==
    IF Len(input) % 2 # 0
    THEN [err |-> "OddLength", vec |-> <<>>]
    ELSE [err |-> "ok",
          vec |-> [i \in 1..(Len(input) \div 2) |->
                      HexVal(input[2 * i - 1]) * 16 + HexVal(input[2 * i])]]

\* replace that takes ESC for a cancel at the first key only
replace_esc_first_only(s, k1, k2) ==
    LET in1 == IF IsCharacter(k1) THEN <<k1>> ELSE <<>>
        input == IF IsCharacter(k2) THEN Append(in1, k2) ELSE in1
    IN  IF IsCharacter(k1) /\ k1 = ESC THEN Ret(s, "cancel")
        ELSE IF \E i \in 1..Len(input) : ~is_ascii_hexdigit(input[i])
        THEN Ret(s, "InvalidHexDigit")
        ELSE LET byte_buf == from_hex(input)
             IN  IF byte_buf.err # "ok" THEN Ret(s, byte_buf.err)
                 ELSE IF Len(byte_buf.vec) = 0
                 THEN Ret([s EXCEPT !.crashed = TRUE], "panic")
                 ELSE LET w == write_byte_at_cursor(s, byte_buf.vec[1])
                      IN  IF w.err # "ok" THEN w
                          ELSE Ret(draw(read_buf(w.st).st), "ok")

\* Editor::replace, the two input events being k1 and k2.  The result is
\* "cancel" for Ok(0), "ok" for Ok(1), "panic" for the failed index, and
\* the error otherwise.
replace(s, k1, k2) ==
    LET in1 == IF IsCharacter(k1) THEN <<k1>> ELSE <<>>
        input == IF IsCharacter(k2) THEN Append(in1, k2) ELSE in1
    IN  IF IsCharacter(k1) /\ k1 = ESC THEN Ret(s, "cancel")
        ELSE IF IsCharacter(k2) /\ k2 = ESC THEN Ret(s, "cancel")
        ELSE IF \E i \in 1..Len(input) : ~is_ascii_hexdigit(input[i])
        THEN Ret(s, "InvalidHexDigit")
        ELSE LET byte_buf == from_hex(input)
             IN  IF byte_buf.err # "ok" THEN Ret(s, byte_buf.err)
                 ELSE IF Len(byte_buf.vec) = 0
                 THEN Ret([s EXCEPT !.crashed = TRUE], "panic")
                 ELSE LET w == write_byte_at_cursor(s, byte_buf.vec[1])
                      IN  IF w.err # "ok" THEN w
                          ELSE Ret(draw(read_buf(w.st).st), "ok")

\* Editor::move_cursor: the result of the view's move is dropped.
editor_move_cursor(s, direction, count) ==
    move_cursor(s, direction, count).st

\* the loop of replace_many without the step to the right
RECURSIVE replace_loop_stay(_, _)
replace_loop_stay(s, entries) ==
    IF entries = <<>>
    THEN [st |-> s, err |-> "ok", left |-> 0, more |-> TRUE]
    ELSE LET r == replace(s, entries[1][1], entries[1][2])
         IN  IF r.err = "cancel"
             THEN [st |-> r.st, err |-> "ok", left |-> Len(entries) - 1,
                   more |-> FALSE]
             ELSE IF r.err # "ok"
             THEN [st |-> r.st, err |-> r.err, left |-> Len(entries) - 1,
                   more |-> FALSE]
             ELSE replace_loop_stay(r.st, Tail(entries))

\* Editor::replace_many: the loop, the input events being the entries.
\* more: the loop has used up the entries and waits for the next key.
RECURSIVE replace_loop(_, _)
replace_loop(s, entries) ==
    IF entries = <<>>
    THEN [st |-> s, err |-> "ok", left |-> 0, more |-> TRUE]
    ELSE LET r == replace(s, entries[1][1], entries[1][2])
         IN  IF r.err = "cancel"
             THEN [st |-> r.st, err |-> "ok", left |-> Len(entries) - 1,
                   more |-> FALSE]
             ELSE IF r.err # "ok"
             THEN [st |-> r.st, err |-> r.err, left |-> Len(entries) - 1,
                   more |-> FALSE]
             ELSE replace_loop(editor_move_cursor(r.st, "Right", 1),
                               Tail(entries))

replace_many(s, entries) ==
    LET status_backup == s.status
        s1 == [s EXCEPT !.status = "-- REPLACE --"]
        r == replace_loop(s1, entries)
    IN  IF r.err # "ok" THEN r
        ELSE [r EXCEPT !.st = draw([r.st EXCEPT !.status = status_backup])]

\* ------------------------------------------------------ the state machine
Install(s) ==
    /\ file' = s.file
    /\ fpos' = s.fpos
    /\ buffer' = s.buffer
    /\ position_y' = s.position_y
    /\ position_x' = s.position_x
    /\ active_pane' = s.active_pane
    /\ status' = s.status
    /\ crashed' = s.crashed
    /\ writes' = s.writes
    /\ wfail' = s.wfail
    /\ hex_bold' = s.hex_bold
    /\ canon_bold' = s.canon_bold
    /\ UNCHANGED <<ro, max_y, len0>>

\* The model follows a run until the process panics, an editing call has
\* reached the file (bytes written, or a write that failed), a read of the
\* file has failed or replace_many has returned an error: the states after
\* it are reached, and not navigated further.
Running ==
    /\ ~crashed
    /\ writes = 0
    /\ ~wfail
    /\ last.err # "IoError"
    /\ ~(last.op = "replace_many" /\ last.err # "ok")

NoLast == [op |-> "init", err |-> "ok"]

\* main and Editor::init: the editor starts with seek(0) on the opened file.
Init ==
    /\ ro \in BOOLEAN
    /\ max_y \in 1..MaxRows
    /\ len0 \in FileLens
    /\ file = InitFile(len0)
    /\ fpos = 0
    /\ buffer = read_loop(file, 0, max_y * ROW_BYTES, 0, <<>>)
    /\ position_y = 0
    /\ position_x = 0
    /\ active_pane = "Hex"
    /\ status = "-- NORMAL --"
    /\ crashed = FALSE
    /\ writes = 0
    /\ wfail = FALSE
    /\ hex_bold = {}
    /\ canon_bold = {}
    /\ last = NoLast

Seek(target) ==
    /\ Running
    /\ \E r \in {seek(State, target)} :
           /\ Install(r.st)
           /\ last' = [op |-> "seek", err |-> r.err]

Scroll(direction, count) ==
    /\ Running
    /\ \E r \in {scroll(State, direction, count)} :
           /\ Install(r.st)
           /\ last' = [op |-> "scroll", err |-> r.err]

MoveCursor(direction, count) ==
    /\ Running
    /\ \E r \in {move_cursor(State, direction, count)} :
           /\ Install(r.st)
           /\ last' = [op |-> "move_cursor", err |-> r.err]

\* The state in which the next read of the file fails (File::read
\* returning Err in freadn_to_vec).
ReadFaulty == [State EXCEPT !.rdfault = TRUE]

\* seek and scroll whose refill meets a failing read
SeekReadFails(target) ==
    /\ Running
    /\ \E r \in {seek(ReadFaulty, target)} :
           /\ r.err = "IoError"
           /\ Install(r.st)
           /\ last' = [op |-> "seek", err |-> r.err]

ScrollReadFails(direction, count) ==
    /\ Running
    /\ \E r \in {scroll(ReadFaulty, direction, count)} :
           /\ r.err = "IoError"
           /\ Install(r.st)
           /\ last' = [op |-> "scroll", err |-> r.err]

SwitchPane ==
    /\ Running
    /\ \E s \in {switch_pane(State)} : Install(s)
    /\ last' = [op |-> "switch_pane", err |-> "ok"]

\* The pairs of input events of one replace call: two hex digits; ESC at
\* the first or the second key, after a digit or another character; a
\* character that is no hex digit; one digit and an event that is no
\* character; no character at all.
KeyPairs == {<<"a", "F">>, <<"F", "a">>, <<"ESC", "a">>, <<"a", "ESC">>,
             <<"z", "ESC">>, <<"z", "a">>, <<"a", "z">>, <<"a", "KEY">>,
             <<"KEY", "a">>, <<"KEY", "NONE">>}

Replace(k1, k2) ==
    /\ Running
    /\ \E r \in {replace(State, k1, k2)} :
           /\ Install(r.st)
           /\ last' = [op |-> "replace", err |-> r.err]

\* The entries of one replace_many call: up to MaxMany two-digit entries,
\* then the entry that ends the call: ESC at the first or the second key, or
\* a character that is no hex digit.
HexPairs == <<<<"a", "F">>, <<"F", "a">>>>
EndPairs == {<<"ESC", "a">>, <<"a", "ESC">>, <<"z", "a">>}
TypedPairs(n) == [i \in 1..n |-> HexPairs[((i - 1) % 2) + 1]]
Entries == {Append(TypedPairs(n), e) : n \in 0..MaxMany, e \in EndPairs}

ReplaceMany(entries) ==
    /\ Running
    /\ \E r \in {replace_many(State, entries)} :
           /\ ~r.more
           /\ r.left = 0
           /\ Install(r.st)
           /\ last' = [op |-> "replace_many", err |-> r.err]

Next ==
    \/ \E t \in (0 - MaxBack)..MaxSeek : Seek(t)
    \/ \E d \in {"Up", "Down"}, c \in 0..MaxCount : Scroll(d, c)
    \/ \E d \in Directions, c \in 0..MaxCount : MoveCursor(d, c)
    \/ SeekReadFails(ROW_BYTES)
    \/ \E d \in {"Up", "Down"} : ScrollReadFails(d, 1)
    \/ SwitchPane
    \/ \E k \in KeyPairs : Replace(k[1], k[2])
    \/ \E e \in Entries : ReplaceMany(e)

Spec == Init /\ [][Next]_vars

\* ------------------------------------------------------------- properties
\* The properties of an operation are stated of its result in every
\* reachable state in which the process is alive.
window_offset == fpos
resolve_offset == fpos + position_y * 16 + position_x

Resolve(s) == s.fpos + s.position_y * 16 + s.position_x

\* The state s without its highlight: what a claim that does not speak of
\* the highlight compares.
NoBold(s) == [s EXCEPT !.hex_bold = {}, !.canon_bold = {}]

\* The bytes of file f that a window of the given number of rows shows at
\* offset off.
Window(f, off, rows) == SubSeq(f, off + 1, Min(Len(f), off + rows * 16))

\* C1: for every target with 0 <= target <= file length, seek(target)
\* succeeds, sets window_offset to target - (target mod 16) and the cursor
\* to (0, target mod 16), so that the cursor resolves to target.
C1_SeekInRange ==
    ~crashed =>
        \A t \in 0..MaxSeek :
            t <= Len(file) =>
                \E r \in {seek(State, t)} :
                    /\ r.err = "ok"
                    /\ r.st.fpos = t - (t % 16)
                    /\ r.st.position_y = 0
                    /\ r.st.position_x = t % 16
                    /\ Resolve(r.st) = t

\* a seek to an unaligned offset inside a file of more than one row succeeded
C1_Witness ==
    /\ last = [op |-> "seek", err |-> "ok"]
    /\ fpos = 16
    /\ position_y = 0
    /\ position_x = 3
    /\ resolve_offset < Len(file)

\* C2: seek(target) fails with OutOfRange whenever the resolved offset
\* exceeds the file length, and a failed seek leaves the window offset, the
\* buffer, the cursor and the seek position as they were.
C2_SeekBeyondEndFails ==
    ~crashed =>
        \A t \in (0 - MaxBack)..MaxSeek :
            \E r \in {seek(State, t)} :
                /\ (t > Len(file)) => r.err = "OutOfRange"
                /\ (r.err # "ok") => r.st = State

\* C3 as stated: on a file of length L >= 1, seek(-1) sets window_offset to
\* L - (L mod 16) and leaves the cursor on the last byte of the file.
C3_SeekLastAsStated ==
    (~crashed /\ Len(file) >= 1) =>
        \E r \in {seek(State, 0 - 1)} :
            /\ r.st.fpos = Len(file) - (Len(file) % 16)
            /\ Resolve(r.st) = Len(file) - 1

\* C3 amended: on a file of length L >= 1, seek(-1) succeeds, sets
\* window_offset to (L-1) - ((L-1) mod 16) and the cursor to
\* (0, (L-1) mod 16), which is the last byte of the file.
C3_SeekLast ==
    (~crashed /\ Len(file) >= 1) =>
        \E r \in {seek(State, 0 - 1)} :
            /\ r.err = "ok"
            /\ r.st.fpos = (Len(file) - 1) - ((Len(file) - 1) % 16)
            /\ r.st.position_y = 0
            /\ r.st.position_x = (Len(file) - 1) % 16
            /\ Resolve(r.st) = Len(file) - 1

\* seek(-1) has put the cursor on the last byte of a file whose length is a
\* multiple of 16
C3_Witness ==
    /\ last = [op |-> "seek", err |-> "ok"]
    /\ Len(file) >= 1
    /\ Len(file) % 16 = 0
    /\ fpos = Len(file) - 16
    /\ position_x = 15
    /\ resolve_offset = Len(file) - 1

\* C4: in every reachable state window_offset, the seek position the view
\* is read and drawn from, is a multiple of 16.
C4_WindowAligned == window_offset % 16 = 0

\* C5: in every reachable state the row of the cursor holds at least one
\* byte of the buffer (stated for the windows that hold a byte at all, which
\* the claim implies).
C5_CursorInBuffer == Len(buffer) > 0 => position_y * 16 < Len(buffer)

\* C6: no sequence of operations changes the length of the file.
C6_LengthFixed == Len(file) = len0

\* C7: in every reachable state 0 <= row < visible rows and 0 <= col < 16.
C7_CursorInGrid ==
    /\ position_y \in 0..(max_y - 1)
    /\ position_x \in 0..15

\* a move at the last cell of the grid was rejected
C7_Witness ==
    /\ last = [op |-> "move_cursor", err |-> "OutOfRange"]
    /\ max_y > 1
    /\ position_y = max_y - 1
    /\ position_x = 15

\* C8: scroll(Up, n) with window_offset - 16n < 0 and scroll(Down, n) with
\* window_offset + 16n > file length fail, and leave the window offset, the
\* buffer, the cursor and the seek position as they were.
C8_ScrollRejected ==
    ~crashed =>
        \A c \in 0..MaxCount :
            /\ (fpos - 16 * c < 0) =>
                  \E r \in {scroll(State, "Up", c)} :
                      r.err = "OutOfRange" /\ r.st = State
            /\ (fpos + 16 * c > Len(file)) =>
                  \E r \in {scroll(State, "Down", c)} :
                      r.err = "OutOfRange" /\ r.st = State

\* a scroll was rejected away from the start of the file
C8_Witness ==
    /\ last = [op |-> "scroll", err |-> "OutOfRange"]
    /\ fpos = 16

\* C9: a successful scroll(Up|Down, n) changes window_offset by -16n / +16n,
\* refills the buffer from the new offset, and leaves the cursor and the
\* active pane as they were.
C9_ScrollMoves ==
    ~crashed =>
        \A d \in {"Up", "Down"}, c \in 0..MaxCount :
            \E r \in {scroll(State, d, c)} :
                r.err = "ok" =>
                    /\ r.st.fpos =
                          fpos + (IF d = "Down" THEN 16 * c ELSE 0 - 16 * c)
                    /\ r.st.buffer = Window(file, r.st.fpos, max_y)
                    /\ NoBold(r.st) =
                          NoBold([State EXCEPT !.fpos = r.st.fpos,
                                               !.buffer = r.st.buffer])

\* a scroll has moved the view to the second row of the file, with the
\* cursor away from the origin
C9_Witness ==
    /\ last = [op |-> "scroll", err |-> "ok"]
    /\ fpos = 16
    /\ Len(buffer) = 4
    /\ position_x = 5
    /\ active_pane = "Canon"

\* C10: a successful write of a byte at the cursor makes the file byte at
\* window_offset + row*16 + col equal to the byte, leaves every other byte
\* of the file as it was, and leaves the seek position as it was.
C10_WriteByte ==
    ~crashed =>
        \A v \in {0, 175, 255} :
            \E r \in {write_byte_at_cursor(State, v)} :
                r.err = "ok" =>
                    /\ Len(r.st.file) > resolve_offset
                    /\ r.st.file[resolve_offset + 1] = v
                    /\ \A i \in 1..Len(file) :
                          i # resolve_offset + 1 => r.st.file[i] = file[i]
                    /\ r.st.fpos = fpos

\* the byte 0xaf was written in place, away from the start of the window
C10_Witness ==
    /\ last = [op |-> "replace", err |-> "ok"]
    /\ writes = 1
    /\ fpos = 16
    /\ position_x = 2
    /\ Len(file) = len0
    /\ file[resolve_offset + 1] = 175

\* C11: no failed step displaces the seek position: when the write inside
\* a write of a byte at the cursor fails, or the read inside the refill of a
\* seek or a scroll fails, the seek position after the call is the seek
\* position on entry.
C11_FailedStepKeepsSeek ==
    ~crashed =>
        /\ \E r \in {write_byte_at_cursor(State, 175)} :
               r.err # "ok" => r.st.fpos = fpos
        /\ \A t \in (0 - MaxBack)..MaxSeek :
               \E r \in {seek(ReadFaulty, t)} :
                   r.err = "IoError" => r.st.fpos = fpos
        /\ \A d \in {"Up", "Down"}, c \in 0..MaxCount :
               \E r \in {scroll(ReadFaulty, d, c)} :
                   r.err = "IoError" => r.st.fpos = fpos

\* C12: a replace entry with ESC at the first or at the second key is
\* cancelled, an entry with a character that is no hex digit is an error,
\* and either writes nothing: the file, window_offset and the cursor
\* (row, col) are as they were.
C12_RejectedEntryWritesNothing ==
    ~crashed =>
        \A k1 \in KeySet, k2 \in KeySet :
            ({k1, k2} \cap {ESC, "z"} # {}) =>
                \E r \in {replace(State, k1, k2)} :
                    /\ r.err = IF ESC \in {k1, k2}
                               THEN "cancel" ELSE "InvalidHexDigit"
                    /\ r.st.file = file
                    /\ r.st.fpos = fpos
                    /\ r.st.position_y = position_y
                    /\ r.st.position_x = position_x
                    /\ r.st.writes = writes
                    /\ r.st = State

\* an entry was cancelled with the cursor inside the second row of the file
C12_Witness ==
    /\ last = [op |-> "replace", err |-> "cancel"]
    /\ file = InitFile(len0)
    /\ fpos = 16
    /\ position_x = 3
    /\ writes = 0

\* The transition table of a single step: the cell an interior step goes
\* to, and whether the step is an edge step.
IsEdgeStep(s, d) ==
    CASE d = "Up" -> s.position_y = 0
      [] d = "Down" -> s.position_y = max_y - 1
      [] d = "Left" -> s.position_x = 0 /\ s.position_y = 0
      [] d = "Right" -> s.position_x = 15 /\ s.position_y = max_y - 1

InteriorCell(s, d) ==
    CASE d = "Up" -> <<s.position_y - 1, s.position_x>>
      [] d = "Down" -> <<s.position_y + 1, s.position_x>>
      [] d = "Left" -> IF s.position_x > 0
                       THEN <<s.position_y, s.position_x - 1>>
                       ELSE <<s.position_y - 1, 15>>
      [] d = "Right" -> IF s.position_x < 15
                        THEN <<s.position_y, s.position_x + 1>>
                        ELSE <<s.position_y + 1, 0>>

EdgeCol(s, d) ==
    CASE d = "Left" -> 15 [] d = "Right" -> 0 [] OTHER -> s.position_x

\* C13: in either pane, an interior step changes the cursor cell only, as
\* the table has it, and does not scroll; an edge step makes the one scroll
\* of 16 bytes up or down, on success keeping the row and setting the column
\* to 15 (Left), 0 (Right) or leaving it (Up, Down), and when the scroll is
\* rejected leaving window_offset, row and column as they were.
C13_SingleStep ==
    ~crashed =>
        \A d \in Directions, p \in Panes :
            \E s \in {[State EXCEPT !.active_pane = p]} :
            \E r \in {move_cursor_once(s, d)} :
                IF ~IsEdgeStep(s, d)
                THEN /\ r.err = "ok"
                     /\ r.st = [s EXCEPT
                            !.position_y = InteriorCell(s, d)[1],
                            !.position_x = InteriorCell(s, d)[2]]
                ELSE \E sc \in {scroll(s, IF d \in {"Up", "Left"}
                                         THEN "Up" ELSE "Down", 1)} :
                     /\ r.err = sc.err
                     /\ r.err \in {"ok", "OutOfRange"}
                     /\ r.err = "ok" =>
                           /\ r.st.fpos =
                                 s.fpos + (IF d \in {"Up", "Left"}
                                           THEN 0 - 16 ELSE 16)
                           /\ r.st.position_y = s.position_y
                           /\ r.st.position_x = EdgeCol(s, d)
                           /\ r.st = [sc.st EXCEPT
                                         !.position_x = EdgeCol(s, d)]
                     /\ r.err = "OutOfRange" => r.st = s

\* a step in the canonical pane has scrolled the view down by one row and
\* left the cursor in the first column of the last visible row
C13_Witness ==
    /\ last = [op |-> "move_cursor", err |-> "ok"]
    /\ active_pane = "Canon"
    /\ fpos = 16
    /\ position_y = max_y - 1
    /\ position_x = 0

\* C14: move_cursor(direction, count) makes the single steps in sequence
\* and stops at the first step whose scroll is rejected: the call of count
\* steps is the call of count - 1 steps followed, when that has not been
\* rejected, by one more single step, and leaves the state that a separate
\* move of one step leaves after the call of count - 1 steps; a rejected
\* call ends in a state in which the step is rejected and changes nothing.
C14_MoveIsSteps ==
    ~crashed =>
        \A d \in Directions, c \in 0..MaxCount :
            \E r \in {move_cursor(State, d, c)} :
                /\ c = 0 => r.err = "ok" /\ NoBold(r.st) = NoBold(State)
                /\ c > 0 =>
                       \E p \in {move_cursor(State, d, c - 1)} :
                       \E q \in {IF p.err # "ok" THEN p
                                 ELSE move_cursor_once(p.st, d)} :
                           /\ r.err = q.err
                           /\ NoBold(r.st) = NoBold(q.st)
                           /\ NoBold(r.st) =
                                 NoBold(editor_move_cursor(p.st, d, 1))
                /\ r.err # "ok" =>
                       /\ r.err = "OutOfRange"
                       /\ move_cursor_once(r.st, d) = r

\* a move of two steps was rejected at its second step, at the last byte
\* cell of the grid with the first step applied
C14_Witness ==
    /\ last = [op |-> "move_cursor", err |-> "OutOfRange"]
    /\ len0 = 20
    /\ fpos = 16
    /\ max_y = 1
    /\ position_x = 15

\* C15: switch_pane toggles the active pane between Hex and Canonical and
\* changes nothing else; a second switch_pane restores the pane; and the
\* pane selects the screen column of the cursor only: the origin of the hex
\* pane + 2*col + col div 2 in the hex pane, the origin of the canonical
\* pane + col in the canonical pane, in the cursor's row in both.
C15_SwitchPane ==
    ~crashed =>
        \E s1 \in {switch_pane(State)} :
            /\ s1.active_pane \in Panes \ {active_pane}
            /\ NoBold(s1) = NoBold([State EXCEPT !.active_pane = s1.active_pane])
            /\ NoBold(switch_pane(s1)) = NoBold(State)
            /\ \A s \in {State, s1} :
                   get_cur_yx(s) =
                       IF s.active_pane = "Hex"
                       THEN <<position_y,
                              11 + 2 * position_x + (position_x \div 2)>>
                       ELSE <<position_y, 53 + position_x>>

\* the pane was switched to the canonical pane and back, with the cursor
\* away from the origin of the grid
C15_Witness ==
    /\ last = [op |-> "switch_pane", err |-> "ok"]
    /\ active_pane = "Hex"
    /\ fpos = 16
    /\ position_x = 5
    /\ position_y = max_y - 1

\* C16: in the grid drawn for the buffer, the two hex digits of the byte at
\* index b of row i are in the columns col(b) and col(b) + 1 of the hex
\* pane, with col(b) = 2*b + b div 2, the column hex_pos_to_cur gives for
\* the cursor; every row takes the 39 columns of the hex pane; and a
\* position i*16 + b at or beyond the length of the buffer is drawn as
\* blanks in the hex and in the canonical grid.
C16_HexGrid ==
    \E hex \in {draw_hex(buffer, max_y, 0, 0)} :
    \E canon \in {draw_canon(buffer, max_y, 0, 0)} :
        /\ Len(hex) = max_y * 39
        /\ HEX_PANE_WIDTH = 39
        /\ <<hex_pos_to_cur(0, 0)[2], hex_pos_to_cur(0, 1)[2],
              hex_pos_to_cur(0, 2)[2], hex_pos_to_cur(0, 3)[2],
              hex_pos_to_cur(0, 4)[2]>> = <<0, 2, 5, 7, 10>>
        /\ \A i \in 0..(max_y - 1), b \in 0..15 :
               \E col \in {2 * b + (b \div 2)} :
                   /\ hex_pos_to_cur(i, b) = <<i, col>>
                   /\ col + 1 < HEX_PANE_WIDTH
                   /\ IF i * 16 + b < Len(buffer)
                      THEN /\ HexVal(WinCell(hex, HEX_PANE_WIDTH, i, col)) * 16
                                + HexVal(WinCell(hex, HEX_PANE_WIDTH, i, col + 1))
                                    = buffer[i * 16 + b + 1]
                           /\ WinCell(canon, CANON_PANE_WIDTH, i, b) \in
                                  {buffer[i * 16 + b + 1], 46}
                      ELSE /\ WinCell(hex, HEX_PANE_WIDTH, i, col) = " "
                           /\ WinCell(hex, HEX_PANE_WIDTH, i, col + 1) = " "
                           /\ WinCell(canon, CANON_PANE_WIDTH, i, b) = 32

\* a window of two rows on the last four bytes of a file is drawn: the
\* fourth byte, 0xc6, in the columns 7 and 8 and blanks after it
C16_Witness ==
    /\ last = [op |-> "seek", err |-> "ok"]
    /\ max_y = 2
    /\ fpos = 16
    /\ Len(buffer) = 4
    /\ buffer[4] = 198
    /\ WinCell(draw_hex(buffer, max_y, 0, 0), HEX_PANE_WIDTH, 0, 7) = "c"
    /\ WinCell(draw_hex(buffer, max_y, 0, 0), HEX_PANE_WIDTH, 0, 8) = "6"
    /\ WinCell(draw_hex(buffer, max_y, 0, 0), HEX_PANE_WIDTH, 0, 10) = " "
    /\ WinCell(draw_hex(buffer, max_y, 0, 0), HEX_PANE_WIDTH, 1, 0) = " "

\* The read loop on files longer than its 512-byte chunk, and on the
\* 40-byte file.
ReadLoopSizes ==
    \A n \in {0, 8, 40, 600, 1100}, size \in {0, 16, 32, 520, 1024} :
        \A off \in {0, 16, 32, n} :
            off <= n =>
                read_loop(InitFile(n), off, size, 0, <<>>)
                    = SubSeq(InitFile(n), off + 1, off + Min(size, n - off))

\* C17: with the window offset inside the file, the refill reads exactly
\* min(visible rows * 16, file length - window_offset) bytes, the bytes of
\* the file from window_offset on, does not fail when fewer bytes are left
\* than asked for, and leaves the seek position as it was; on a 40-byte file
\* shown in 2 rows, scroll(Down, 2) from offset 0 succeeds with
\* window_offset 32 and a buffer of 8 bytes.
C17_Refill ==
    /\ ReadLoopSizes
    /\ (~crashed /\ fpos <= Len(file)) =>
           \E r \in {read_buf(State)} :
               /\ r.err = "ok"
               /\ Len(r.st.buffer) = Min(max_y * 16, Len(file) - fpos)
               /\ r.st.buffer = Window(file, fpos, max_y)
               /\ r.st.fpos = fpos
               /\ r.st = [State EXCEPT !.buffer = r.st.buffer]
    /\ (~crashed /\ max_y = 2) =>
           \E r \in {scroll([State EXCEPT
                               !.file = InitFile(40), !.fpos = 0,
                               !.buffer = SubSeq(InitFile(40), 1, 32)],
                           "Down", 2)} :
               /\ r.err = "ok"
               /\ r.st.fpos = 32
               /\ r.st.buffer = SubSeq(InitFile(40), 33, 40)

\* a step down in the last of two rows has scrolled the view to the last
\* four bytes of the file: the refill read four bytes of the 32 asked for
C17_Witness ==
    /\ last = [op |-> "move_cursor", err |-> "ok"]
    /\ max_y = 2
    /\ len0 = 20
    /\ fpos = 16
    /\ position_y = 1
    /\ buffer = SubSeq(file, 17, 20)

\* C18: after every completed operation the buffer holds the bytes of the
\* file in [window_offset, window_offset + min(visible rows * 16,
\* file length - window_offset)).
C18_BufferIsWindow == buffer = Window(file, window_offset, max_y)

\* The byte a two-digit entry stands for.
EntryByte(e) == HexVal(e[1]) * 16 + HexVal(e[2])

\* C19: on a writable file, replace_many with k completed two-digit entries
\* and then ESC, the cursor at resolved offset o, writes the bytes of the
\* entries to the offsets o, o+1, ..., o+k-1 in the order of the entries and
\* no other byte of the file as it was: the step to the right succeeds
\* after every write, the scroll at the last cell of the grid included, and
\* the cursor ends at o + k.
C19_ReplaceManyAdvances ==
    (~crashed /\ ~ro) =>
        \A k \in 1..MaxMany :
            \E typed \in {TypedPairs(k)} :
            \E r \in {replace_many(State, Append(typed, <<ESC, "a">>))} :
                /\ r.err = "ok"
                /\ r.left = 0
                /\ r.st.writes = writes + k
                /\ Resolve(r.st) = resolve_offset + k
                /\ Len(r.st.file) >= resolve_offset + k
                /\ \A j \in 1..k :
                       r.st.file[resolve_offset + j] = EntryByte(typed[j])
                /\ \A i \in 1..Len(file) :
                       i \notin (resolve_offset + 1)..(resolve_offset + k)
                           => r.st.file[i] = file[i]

\* two entries were written at the last cell of a one-row grid and at the
\* first cell of the row scrolled to
C19_Witness ==
    /\ last = [op |-> "replace_many", err |-> "ok"]
    /\ ~ro
    /\ writes = 2
    /\ max_y = 1
    /\ len0 = 20
    /\ fpos = 16
    /\ position_x = 1
    /\ file[16] = 175
    /\ file[17] = 250

\* C20: for every pair of input events, replace ends cancelled with nothing
\* written, with an error value and nothing written, or with exactly one
\* byte written, and does not abort the program.
C20_ReplaceOutcomes ==
    ~crashed =>
        \A k1 \in KeySet, k2 \in KeySet :
            \E r \in {replace(State, k1, k2)} :
                /\ ~r.st.crashed
                /\ \/ r.err = "cancel" /\ r.st.file = file
                   \/ /\ r.err \in {"InvalidHexDigit", "OddLength", "IoError"}
                      /\ r.st.file = file
                   \/ /\ r.err = "ok"
                      /\ r.st.writes = writes + 1

\* The cells of the hex grid and of the canonical grid that are highlighted
\* when the highlight is on the cell (row, col) of the grid.
HexCells(row, col) ==
    {<<row, 2 * col + (col \div 2)>>, <<row, 2 * col + (col \div 2) + 1>>}
CanonCells(row, col) == {<<row, col>>}

\* C21: after move_cursor(direction, count), whether every step succeeded
\* or one was rejected, the highlighted cells are those of the cursor: the
\* two columns from 2*col + col div 2 of its row in the hex grid, the column
\* col of its row in the canonical grid, and no other.
C21_HighlightOnCursor ==
    ~crashed =>
        \A d \in Directions, c \in 0..MaxCount :
            \E r \in {move_cursor(State, d, c)} :
                /\ r.st.hex_bold =
                       HexCells(r.st.position_y, r.st.position_x)
                /\ r.st.canon_bold =
                       CanonCells(r.st.position_y, r.st.position_x)

\* The change of the resolved offset that a step in direction d makes, and
\* the direction that takes the step back.
StepDelta(d) ==
    CASE d = "Right" -> 1 [] d = "Left" -> 0 - 1
      [] d = "Down" -> 16 [] d = "Up" -> 0 - 16
Opposite(d) ==
    CASE d = "Right" -> "Left" [] d = "Left" -> "Right"
      [] d = "Down" -> "Up" [] d = "Up" -> "Down"

\* C22: a successful single step changes the resolved offset
\* window_offset + row*16 + col by +1 (Right), -1 (Left), +16 (Down) or
\* -16 (Up), also when it wraps a row or scrolls; a rejected step leaves it
\* unchanged; a successful step followed by a successful step in the
\* opposite direction is back at the resolved offset it started from.
C22_StepChangesOffset ==
    ~crashed =>
        \A d \in Directions :
            \E r \in {move_cursor_once(State, d)} :
                /\ r.err \in {"ok", "OutOfRange"}
                /\ r.err = "ok" => Resolve(r.st) = resolve_offset + StepDelta(d)
                /\ r.err # "ok" => Resolve(r.st) = resolve_offset
                /\ r.err = "ok" =>
                       \E b \in {move_cursor_once(r.st, Opposite(d))} :
                           b.err = "ok" => Resolve(b.st) = resolve_offset

\* a move has put the cursor at the end of the last visible row, from where
\* the step Right scrolls the view by a row and wraps to column 0, and the
\* step Left from there comes back
C22_Witness ==
    /\ last = [op |-> "move_cursor", err |-> "ok"]
    /\ position_x = 15
    /\ position_y = max_y - 1
    /\ \E r \in {move_cursor_once(State, "Right")} :
           /\ r.err = "ok"
           /\ r.st.fpos = fpos + 16
           /\ r.st.position_x = 0
           /\ Resolve(r.st) = resolve_offset + 1
           /\ \E b \in {move_cursor_once(r.st, "Left")} :
                  /\ b.err = "ok"
                  /\ Resolve(b.st) = resolve_offset

\* C23: in every reachable state the view is positioned inside the file,
\* 0 <= window_offset <= file length, whatever seek, scroll, move_cursor
\* and replace operations, successful or failing, have been made.
C23_WindowInFile ==
    ~crashed => 0 <= window_offset /\ window_offset <= Len(file)

\* C24: a negative seek target resolves as file length + target.  When that
\* value is negative (target < -length, seek(-1) on an empty file among
\* them) the seek fails with OutOfRange and leaves window_offset, buffer,
\* cursor and seek position as they were; otherwise the seek succeeds and
\* the cursor resolves to length + target.
C24_NegativeSeek ==
    ~crashed =>
        \A t \in (0 - MaxBack)..(0 - 1) :
            \E r \in {seek(State, t)} :
                IF Len(file) + t < 0
                THEN /\ r.err = "OutOfRange"
                     /\ r.st = State
                ELSE /\ r.err = "ok"
                     /\ Resolve(r.st) = Len(file) + t

\* a seek of an empty file has been rejected in a state with the cursor off
\* the origin, where seek(-1) is rejected and changes nothing
C24_Witness ==
    /\ last = [op |-> "seek", err |-> "OutOfRange"]
    /\ Len(file) = 0
    /\ position_x > 0
    /\ \E r \in {seek(State, 0 - 1)} :
           r.err = "OutOfRange" /\ r.st = State

\* C25: replace_many leaves the status line as it was before the call on
\* every way out, ESC, an entry that is no hex number, or a failed write:
\* the status is not "-- REPLACE --" once the call has ended.
C25_StatusRestored ==
    ~crashed =>
        \A e \in Entries :
            \E r \in {replace_many(State, e)} :
                (~r.more /\ r.left = 0 /\ ~r.st.crashed) =>
                    /\ r.st.status = status
                    /\ r.st.status # "-- REPLACE --"

\* The state after n calls of Editor::move_cursor(d, 1) from state s.
RECURSIVE Repeat(_, _, _)
Repeat(s, d, n) ==
    IF n <= 0 THEN s
    ELSE Repeat(editor_move_cursor(s, d, 1), d, n - 1)

\* The largest multiple of 16 that is no greater than the file length.
AlignedEnd == Len(file) - (Len(file) % 16)

\* C26: from every reachable state, the first row + window_offset/16 calls
\* of move_cursor(Up, 1) succeed and end at window_offset = 0, row = 0,
\* where a further Up step is rejected and changes nothing; and, the file
\* not being written, repeated move_cursor(Down, 1) ends at the largest
\* multiple of 16 no greater than the file length, in the last row, where a
\* further Down step is rejected and changes nothing.
C26_UpDownEnd ==
    ~crashed =>
        LET n == position_y + (window_offset \div 16)
            top == Repeat(State, "Up", n)
            m == (max_y - 1 - position_y)
                 + ((AlignedEnd - window_offset) \div 16)
            bottom == Repeat(State, "Down", m)
        IN  /\ \A k \in 0..(n - 1) :
                   move_cursor(Repeat(State, "Up", k), "Up", 1).err = "ok"
            /\ top.fpos = 0
            /\ top.position_y = 0
            /\ \E r \in {move_cursor(top, "Up", 1)} :
                   /\ r.err = "OutOfRange"
                   /\ NoBold(r.st) = NoBold(top)
            /\ bottom.fpos = AlignedEnd
            /\ bottom.position_y = max_y - 1
            /\ \E r \in {move_cursor(bottom, "Down", 1)} :
                   /\ r.err = "OutOfRange"
                   /\ NoBold(r.st) = NoBold(bottom)

====
